---------------------------- MODULE Spec2Model ----------------------------
(***************************************************************************)
(* Model of the finance dashboard in src/main.py: the three persisted      *)
(* stores (Category Store, Budget Map, Recurring Keyword List), the        *)
(* keyword classifier, keyword learning, the budget status report and the  *)
(* recurring-candidate detection.                                          *)
(*                                                                         *)
(* Text is modelled as a sequence of one-character strings so that         *)
(* str.lower(), str.strip() and the substring test `k in details` are      *)
(* computed as Python computes them.  A Python dict is modelled in its     *)
(* insertion order where the order is observable (categories) and as a     *)
(* function where it is not (budgets).                                     *)
(***************************************************************************)
EXTENDS Integers, Sequences, FiniteSets, TLC

VARIABLES
    pc,             \* "start" | "running" | "crashed": the script run's outcome
    category_file,  \* categories.json on disk
    budget_file,    \* budgets.json on disk
    recurring_file, \* recurring.json on disk
    start_files,    \* history: the three files as the session found them
    categories,     \* st.session_state.categories (insertion-ordered)
    budgets,        \* st.session_state.budgets
    recurring,      \* st.session_state.recurring
    upload,         \* the uploaded CSV: one raw Description per row
    df,             \* Category column of load_transactions' result
    debits_df,      \* Category column of st.session_state.debits_df
    calls,          \* history: the add_keyword_to_category calls of the last handler that made any
    last_action,    \* history: the last operation and its inputs
    budget_ops,     \* history: per category, the last budget operation
    nops,           \* number of user operations so far (bounded in Spec only)
    category_totals,\* Budget Status input: spent per category
    status,         \* Budget Status output, one row per reported category
    base_df,        \* candidate detection input: the transactions
    candidates      \* candidate detection output

storeVars == <<pc, category_file, budget_file, recurring_file, start_files,
               categories, budgets, recurring, upload, df, debits_df, calls,
               last_action, budget_ops, nops>>
statusVars == <<category_totals, status>>
candVars == <<base_df, candidates>>
vars == <<storeVars, statusVars, candVars>>

---------------------------------------------------------------------------
(* Text *)

T_blank == <<" ", " ">>
T_a == <<"a">>
T_c == <<"c">>
T_AB == <<"A", "B">>
T_sp_ab_sp == <<" ", "a", "b", " ">>
T_x == <<"x">>

LowerChar(ch) ==
    CASE ch = "A" -> "a"
      [] ch = "B" -> "b"
      [] ch = "C" -> "c"
      [] ch = "X" -> "x"
      [] OTHER -> ch

\* str.lower()
Lower(s) == [i \in 1..Len(s) |-> LowerChar(s[i])]

RECURSIVE LStrip(_)
LStrip(s) == IF s # <<>> /\ Head(s) = " " THEN LStrip(Tail(s)) ELSE s

RECURSIVE RStrip(_)
RStrip(s) ==
    IF s # <<>> /\ s[Len(s)] = " " THEN RStrip(SubSeq(s, 1, Len(s) - 1)) ELSE s

\* str.strip()
Strip(s) == RStrip(LStrip(s))

\* Python's `k in s` on strings: k occurs in s as a contiguous run
Contains(s, k) ==
    \E i \in 0..(Len(s) - Len(k)) : SubSeq(s, i + 1, i + Len(k)) = k

---------------------------------------------------------------------------
(* Persisted documents *)

None == "<None>"

Absent == [kind |-> "absent"]
Corrupt == [kind |-> "corrupt"]
Json(doc) == [kind |-> "json", doc |-> doc]

EmptyMap == [k \in {} |-> 0]

\* json.dump writes a None key of a dict as the string "null"
JsonKey(k) == IF k = None THEN "null" ELSE k

\* json.dump of a dict of numbers followed by json.load: keys become strings,
\* and of two keys that become the same string the later one (None is only
\* ever inserted after a loaded "null") gives the value
JsonMap(b) ==
    [k \in {JsonKey(x) : x \in DOMAIN b} |->
        IF k = "null" /\ None \in DOMAIN b THEN b[None] ELSE b[k]]

\* json.dump of a dict of string lists, or of a string list, followed by
\* json.load: the same keys in the same order with the same lists
JsonList(v) == [i \in 1..Len(v) |-> v[i]]

DefaultCategories == <<[name |-> "Uncategorized", keywords |-> <<>>]>>

Keys(cats) == {cats[i].name : i \in 1..Len(cats)}

IndexOf(cats, name) == CHOOSE i \in 1..Len(cats) : cats[i].name = name

Get(cats, name) == cats[IndexOf(cats, name)].keywords

\* save_categories / save_budgets / save_recurring: the file after the write
SaveCategories(cats) == Json(JsonList(cats))

SaveBudgets(b) == Json(JsonMap(b))

SaveRecurring(r) == Json(JsonList(r))

\* lines 13-21: budgets at the top of a script run
LoadBudgets(mem, file, first) ==
    LET b0 == IF first THEN EmptyMap ELSE mem
    IN  CASE file.kind = "absent" -> b0
          [] file.kind = "corrupt" -> EmptyMap
          [] OTHER -> file.doc

\* lines 24-31: categories at the top of a script run (json.load is not
\* guarded here: CategoriesRaise tells when it raises)
CategoriesRaise(file) == file.kind = "corrupt"

LoadCategories(mem, file, first) ==
    LET c0 == IF first THEN DefaultCategories ELSE mem
    IN  IF file.kind = "json" THEN file.doc ELSE c0

\* lines 57-65: recurring keywords at the top of a script run
LoadRecurring(mem, file, first) ==
    LET r0 == IF first THEN <<>> ELSE mem
    IN  CASE file.kind = "absent" -> r0
          [] file.kind = "corrupt" -> <<>>
          [] OTHER -> file.doc

---------------------------------------------------------------------------
(* Classifier *)

\* line 78: Details is the stripped Description
Details(description) == Strip(description)

\* line 50: any(k in details for k in lowered_keywords)
AnyKeywordIn(keywords, details) ==
    \E i \in 1..Len(keywords) : Contains(details, Strip(Lower(keywords[i])))

\* lines 44-51 for one row: the categories are visited in insertion order and
\* every match overwrites the row's category
RECURSIVE CategorizeFrom(_, _, _, _)
CategorizeFrom(cats, i, details, current) ==
    IF i > Len(cats) THEN current
    ELSE IF cats[i].name = "Uncategorized" \/ cats[i].keywords = <<>>
         THEN CategorizeFrom(cats, i + 1, details, current)
         ELSE CategorizeFrom(cats, i + 1, details,
                  IF AnyKeywordIn(cats[i].keywords, Strip(Lower(details)))
                  THEN cats[i].name ELSE current)

\* a classifier that keeps the first match instead of the last
CategorizeFirstMatch(details, cats) ==
    LET M == {i \in 1..Len(cats) :
                 /\ cats[i].name # "Uncategorized"
                 /\ AnyKeywordIn(cats[i].keywords, Strip(Lower(details)))}
    IN  IF M = {} THEN "Uncategorized"
        ELSE cats[CHOOSE i \in M : \A j \in M : i <= j].name

\* lines 41-53 for one row
CategoryOf(details, cats) == CategorizeFrom(cats, 1, details, "Uncategorized")

\* lines 41-53, 72-95: the Category column of the parsed upload
CategorizeTransactions(rows, cats) ==
    [i \in 1..Len(rows) |-> CategoryOf(Details(rows[i]), cats)]

---------------------------------------------------------------------------
(* Keyword learning *)

\* add_keyword_to_category with a case-sensitive duplicate test
AddKeywordCaseSensitive(cats, file, category, keyword) ==
    LET kw == Strip(keyword)
        c1 == IF category \in Keys(cats) THEN cats
              ELSE Append(cats, [name |-> category, keywords |-> <<>>])
        i  == IndexOf(c1, category)
        c2 == [c1 EXCEPT ![i].keywords = Append(@, kw)]
    IN  IF kw = <<>>
        THEN [categories |-> cats, category_file |-> file, ret |-> FALSE]
        ELSE IF \E j \in 1..Len(c1[i].keywords) : c1[i].keywords[j] = kw
        THEN [categories |-> c1, category_file |-> file, ret |-> FALSE]
        ELSE [categories |-> c2, category_file |-> SaveCategories(c2), ret |-> TRUE]

\* add_keyword_to_category that makes sure the category exists before it
\* looks at the keyword
AddKeywordCreateFirst(cats, file, category, keyword) ==
    LET kw == Strip(keyword)
        c1 == IF category \in Keys(cats) THEN cats
              ELSE Append(cats, [name |-> category, keywords |-> <<>>])
        i  == IndexOf(c1, category)
        existing == {Strip(Lower(c1[i].keywords[j])) : j \in 1..Len(c1[i].keywords)}
        c2 == [c1 EXCEPT ![i].keywords = Append(@, kw)]
    IN  IF kw = <<>>
        THEN [categories |-> c1, category_file |-> file, ret |-> FALSE]
        ELSE IF Lower(kw) \in existing
        THEN [categories |-> c1, category_file |-> file, ret |-> FALSE]
        ELSE [categories |-> c2, category_file |-> SaveCategories(c2), ret |-> TRUE]

\* add_keyword_to_category that appends the keyword lower-cased and only
\* to a category that has none yet
AddKeywordOnlyFirst(cats, file, category, keyword) ==
    LET kw == Strip(keyword)
        c1 == IF category \in Keys(cats) THEN cats
              ELSE Append(cats, [name |-> category, keywords |-> <<>>])
        i  == IndexOf(c1, category)
        c2 == [c1 EXCEPT ![i].keywords = Append(@, kw)]
    IN  IF kw = <<>>
        THEN [categories |-> cats, category_file |-> file, ret |-> FALSE]
        ELSE IF c1[i].keywords # <<>>
        THEN [categories |-> c1, category_file |-> file, ret |-> FALSE]
        ELSE [categories |-> c2, category_file |-> SaveCategories(c2), ret |-> TRUE]

\* lines 101-117: the store, the file and the returned flag after the call
AddKeywordToCategory(cats, file, category, keyword) ==
    LET kw == Strip(keyword)
        c1 == IF category \in Keys(cats) THEN cats
              ELSE Append(cats, [name |-> category, keywords |-> <<>>])
        i  == IndexOf(c1, category)
        existing == {Strip(Lower(c1[i].keywords[j])) : j \in 1..Len(c1[i].keywords)}
        c2 == [c1 EXCEPT ![i].keywords = Append(@, kw)]
    IN  IF kw = <<>>
        THEN [categories |-> cats, category_file |-> file, ret |-> FALSE]
        ELSE IF Lower(kw) \in existing
        THEN [categories |-> c1, category_file |-> file, ret |-> FALSE]
        ELSE [categories |-> c2, category_file |-> SaveCategories(c2), ret |-> TRUE]

\* history: the keywords of `category` equal to `keyword` up to case and
\* surrounding whitespace
SameKeywords(cats, category, keyword) ==
    IF category \in Keys(cats)
    THEN {j \in 1..Len(Get(cats, category)) :
             Lower(Strip(Get(cats, category)[j])) = Lower(Strip(keyword))}
    ELSE {}

\* history: one add_keyword_to_category call as the caller observes it
CallRecord(cats, file, category, keyword, r) ==
    [category |-> category, keyword |-> keyword, ret |-> r.ret,
     known   |-> category \in Keys(cats),
     present |-> SameKeywords(cats, category, keyword) # {},
     changed |-> r.categories # cats \/ r.category_file # file]

\* lines 205-212: the Apply Changes loop over the rows of the editor; `edited`
\* is the Category column of edited_df
RECURSIVE ApplyLoop(_, _, _, _, _, _)
ApplyLoop(i, edited, cats, file, ddf, log) ==
    IF i > Len(edited)
    THEN [categories |-> cats, category_file |-> file, debits_df |-> ddf, calls |-> log]
    ELSE IF edited[i] = ddf[i]
         THEN ApplyLoop(i + 1, edited, cats, file, ddf, log)
         ELSE LET r == AddKeywordToCategory(cats, file, edited[i], Details(upload[i]))
              IN  ApplyLoop(i + 1, edited, r.categories, r.category_file,
                            [ddf EXCEPT ![i] = edited[i]],
                            Append(log, CallRecord(cats, file, edited[i],
                                                   Details(upload[i]), r)))

---------------------------------------------------------------------------
(* Inputs *)

CategoryNames == {"Uncategorized", "Food", "Bills"}

\* what the user may type into "New Category Name"
NewCategoryInputs == CategoryNames \cup {""}

\* texts handed to add_keyword_to_category and typed as recurring keywords
Texts == {T_AB, T_sp_ab_sp, T_blank}

\* the Description column of the uploaded CSV
Uploads == {<<T_sp_ab_sp, T_AB>>}

\* categories.json as a session may find it: missing, unreadable, written by
\* an earlier session, or a mapping without the "Uncategorized" key
CategoryFiles ==
    {Absent, Corrupt,
     Json(<<>>),
     Json(<<[name |-> "Food", keywords |-> <<T_a>>]>>),
     Json(<<[name |-> "Uncategorized", keywords |-> <<>>],
            [name |-> "Food", keywords |-> <<T_a>>],
            [name |-> "Bills", keywords |-> <<T_c>>]>>)}

BudgetFiles == {Absent, Corrupt, Json([k \in {"Food"} |-> 1])}

RecurringFiles == {Absent, Corrupt, Json(<<T_x>>)}

\* the largest amount typed into the budget input (min_value=0.0, line 233)
MaxAmount == 2

\* the number of script runs a behaviour of Spec makes
MaxOps == 3

BudgetKeys == CategoryNames \cup {None, "null"}

NoAction == [name |-> "none"]

NoBudgetOps == [c \in CategoryNames |-> [op |-> "none", amount |-> 0]]

---------------------------------------------------------------------------
(* The script run: lines 13-31 and 57-65 are executed again at the top of   *)
(* every run, then main() parses and classifies the upload (lines 124-174) *)
(* and runs the handler of the widget that was used.                       *)

TopBudgets == LoadBudgets(budgets, budget_file, FALSE)
TopCategories == LoadCategories(categories, category_file, FALSE)
TopRecurring == LoadRecurring(recurring, recurring_file, FALSE)

\* a run reaches main() only if the categories loaded
Runs == pc = "running" /\ ~CategoriesRaise(category_file)

unchangedViews == UNCHANGED <<statusVars, candVars>>

\* the first run of a session, no widget used
Startup ==
    /\ pc = "start"
    /\ budgets' = LoadBudgets(budgets, budget_file, TRUE)
    /\ IF CategoriesRaise(category_file)
       THEN /\ pc' = "crashed"
            /\ categories' = DefaultCategories
            /\ UNCHANGED <<recurring, df, debits_df>>
       ELSE /\ pc' = "running"
            /\ categories' = LoadCategories(categories, category_file, TRUE)
            /\ recurring' = LoadRecurring(recurring, recurring_file, TRUE)
            /\ df' = CategorizeTransactions(upload, categories')
            /\ debits_df' = df'
    /\ last_action' = [name |-> "Startup"]
    /\ UNCHANGED <<category_file, budget_file, recurring_file, start_files,
                   upload, calls, budget_ops>>
    /\ unchangedViews

\* a run with no button pressed (a filter changed, a tab was opened)
Rerun ==
    /\ Runs
    /\ budgets' = TopBudgets
    /\ categories' = TopCategories
    /\ recurring' = TopRecurring
    /\ df' = CategorizeTransactions(upload, categories')
    /\ debits_df' = df'
    /\ last_action' = [name |-> "Rerun"]
    /\ UNCHANGED <<pc, category_file, budget_file, recurring_file, start_files,
                   upload, calls, budget_ops>>
    /\ unchangedViews

\* lines 178-185: "Add Category"; st.rerun() starts the next run at once
AddCategory(new_category) ==
    /\ Runs
    /\ LET c1 == TopCategories
           add == new_category # "" /\ new_category \notin Keys(c1)
           c2 == IF add THEN Append(c1, [name |-> new_category, keywords |-> <<>>])
                 ELSE c1
           f2 == IF add THEN SaveCategories(c2) ELSE category_file
       IN  /\ category_file' = f2
           /\ categories' = LoadCategories(c2, f2, FALSE)
           /\ df' = CategorizeTransactions(upload, categories')
           /\ debits_df' = df'
    /\ budgets' = TopBudgets
    /\ recurring' = TopRecurring
    /\ calls' = <<>>
    /\ last_action' = [name |-> "AddCategory"]
    /\ UNCHANGED <<pc, budget_file, recurring_file, start_files, upload, budget_ops>>
    /\ unchangedViews

\* lines 189-212: the editor's Category column is changed and "Apply Changes"
\* is pressed
ApplyChanges(edited) ==
    /\ Runs
    /\ LET c1 == TopCategories
           d1 == CategorizeTransactions(upload, c1)
           r  == ApplyLoop(1, edited, c1, category_file, d1, <<>>)
       IN  /\ \A i \in 1..Len(upload) : edited[i] \in Keys(c1) \cup {d1[i]}
           /\ df' = d1
           /\ categories' = r.categories
           /\ category_file' = r.category_file
           /\ debits_df' = r.debits_df
           /\ calls' = r.calls
    /\ budgets' = TopBudgets
    /\ recurring' = TopRecurring
    /\ last_action' = [name |-> "ApplyChanges"]
    /\ UNCHANGED <<pc, budget_file, recurring_file, start_files, upload, budget_ops>>
    /\ unchangedViews

\* lines 101-117 reached with a category and a text of the caller's choosing:
\* the engine's record-correction operation, in a run of its own
RecordUserCorrection(category, details_text) ==
    /\ Runs
    /\ LET c1 == TopCategories
           r  == AddKeywordToCategory(c1, category_file, category, details_text)
       IN  /\ df' = CategorizeTransactions(upload, c1)
           /\ debits_df' = df'
           /\ categories' = r.categories
           /\ category_file' = r.category_file
           /\ calls' = <<CallRecord(c1, category_file, category, details_text, r)>>
    /\ budgets' = TopBudgets
    /\ recurring' = TopRecurring
    /\ last_action' = [name |-> "RecordUserCorrection"]
    /\ UNCHANGED <<pc, budget_file, recurring_file, start_files, upload, budget_ops>>
    /\ unchangedViews

\* line 228: st.selectbox over the category names gives None when there is
\* no category to choose
SelectOptions(cats) == IF Keys(cats) = {} THEN {None} ELSE Keys(cats)

NoteBudgetOp(c, op, amount) ==
    IF c \in CategoryNames
    THEN [budget_ops EXCEPT ![c] = [op |-> op, amount |-> amount]]
    ELSE budget_ops

\* lines 240-242: the Budget Map after "Save Budget"
SaveBudgetEntry(b, selected_cat, new_budget) ==
    [k \in DOMAIN b \cup {selected_cat} |->
        IF k = selected_cat THEN new_budget ELSE b[k]]

\* "Clear Budget" that sets the entry to 0 instead of deleting it
ClearBudgetEntryZero(b, selected_cat) ==
    [k \in DOMAIN b |-> IF k = selected_cat THEN 0 ELSE b[k]]

\* lines 246-247: the Budget Map after "Clear Budget"
ClearBudgetEntry(b, selected_cat) ==
    [k \in DOMAIN b \ {selected_cat} |-> b[k]]

\* lines 227-243: "Save Budget"
SaveBudget(selected_cat, new_budget) ==
    /\ Runs
    /\ selected_cat \in SelectOptions(TopCategories)
    /\ budgets' = SaveBudgetEntry(TopBudgets, selected_cat, new_budget)
    /\ budget_file' = SaveBudgets(budgets')
    /\ categories' = TopCategories
    /\ recurring' = TopRecurring
    /\ df' = CategorizeTransactions(upload, categories')
    /\ debits_df' = df'
    /\ calls' = <<>>
    /\ budget_ops' = NoteBudgetOp(selected_cat, "set", new_budget)
    /\ last_action' = [name |-> "SaveBudget", category |-> selected_cat]
    /\ UNCHANGED <<pc, category_file, recurring_file, start_files, upload>>
    /\ unchangedViews

\* lines 244-249: "Clear Budget"
ClearBudget(selected_cat) ==
    /\ Runs
    /\ selected_cat \in SelectOptions(TopCategories)
    /\ IF selected_cat \in DOMAIN TopBudgets
       THEN /\ budgets' = ClearBudgetEntry(TopBudgets, selected_cat)
            /\ budget_file' = SaveBudgets(budgets')
       ELSE /\ budgets' = TopBudgets
            /\ UNCHANGED budget_file
    /\ categories' = TopCategories
    /\ recurring' = TopRecurring
    /\ df' = CategorizeTransactions(upload, categories')
    /\ debits_df' = df'
    /\ calls' = <<>>
    /\ budget_ops' = NoteBudgetOp(selected_cat, "clear", 0)
    /\ last_action' = [name |-> "ClearBudget", category |-> selected_cat]
    /\ UNCHANGED <<pc, category_file, recurring_file, start_files, upload>>
    /\ unchangedViews

\* lines 299-306: "Add keyword" on the Recurring tab
AddRecurringKeyword(new_kw) ==
    /\ Runs
    /\ LET r1 == TopRecurring
           k  == Strip(new_kw)
           add == k # <<>> /\ Lower(k) \notin {Lower(r1[i]) : i \in 1..Len(r1)}
       IN  IF add
           THEN /\ recurring' = Append(r1, k)
                /\ recurring_file' = SaveRecurring(recurring')
           ELSE /\ recurring' = r1
                /\ UNCHANGED recurring_file
    /\ budgets' = TopBudgets
    /\ categories' = TopCategories
    /\ df' = CategorizeTransactions(upload, categories')
    /\ debits_df' = df'
    /\ calls' = <<>>
    /\ last_action' = [name |-> "AddRecurringKeyword"]
    /\ UNCHANGED <<pc, category_file, budget_file, start_files, upload, budget_ops>>
    /\ unchangedViews

\* lines 308-316: "Remove selected" on the Recurring tab
RemoveRecurringKeyword(to_remove) ==
    /\ Runs
    /\ LET r1 == TopRecurring
       IN  /\ to_remove \in {r1[i] : i \in 1..Len(r1)}
           /\ recurring' = SelectSeq(r1, LAMBDA x : x # to_remove)
           /\ recurring_file' = SaveRecurring(recurring')
    /\ budgets' = TopBudgets
    /\ categories' = TopCategories
    /\ df' = CategorizeTransactions(upload, categories')
    /\ debits_df' = df'
    /\ calls' = <<>>
    /\ last_action' = [name |-> "RemoveRecurringKeyword"]
    /\ UNCHANGED <<pc, category_file, budget_file, start_files, upload, budget_ops>>
    /\ unchangedViews

\* the edited Category columns the editor can hand to "Apply Changes"
Edits == [1..Len(upload) -> CategoryNames]

---------------------------------------------------------------------------
(* Specifications of the stores *)

InitViews ==
    /\ category_totals = <<>>
    /\ status = <<>>
    /\ base_df = <<>>
    /\ candidates = <<>>

InitStores(cfs, bfs, rfs) ==
    /\ pc = "start"
    /\ category_file \in cfs
    /\ budget_file \in bfs
    /\ recurring_file \in rfs
    /\ start_files = [categories |-> category_file, budgets |-> budget_file,
                      recurring |-> recurring_file]
    /\ categories = <<>>
    /\ budgets = EmptyMap
    /\ recurring = <<>>
    /\ upload \in Uploads
    /\ df = <<>>
    /\ debits_df = <<>>
    /\ calls = <<>>
    /\ last_action = NoAction
    /\ budget_ops = NoBudgetOps
    /\ nops = 0
    /\ InitViews

\* the whole application, a bounded number of runs per session
Init == InitStores(CategoryFiles, BudgetFiles, RecurringFiles)

Counted == nops < MaxOps /\ nops' = nops + 1

Uncounted == UNCHANGED nops

Next ==
    \/ Counted /\ Startup
    \/ Counted /\ Rerun
    \/ Counted /\ \E c \in NewCategoryInputs : AddCategory(c)
    \/ Counted /\ \E e \in Edits : ApplyChanges(e)
    \/ Counted /\ \E c \in BudgetKeys, a \in 0..MaxAmount : SaveBudget(c, a)
    \/ Counted /\ \E c \in BudgetKeys : ClearBudget(c)
    \/ Counted /\ \E t \in Texts : AddRecurringKeyword(t)
    \/ Counted /\ \E t \in Texts \cup {T_x} : RemoveRecurringKeyword(t)

Spec == Init /\ [][Next]_vars

\* the Category Store, its classifier and keyword learning
InitCategories == InitStores(CategoryFiles \ {Json(<<>>)}, {Absent}, {Absent})

NextCategories ==
    \/ Uncounted /\ Startup
    \/ Uncounted /\ Rerun
    \/ Uncounted /\ \E c \in NewCategoryInputs : AddCategory(c)
    \/ Uncounted /\ \E e \in Edits : ApplyChanges(e)
    \/ Uncounted /\ \E c \in CategoryNames, t \in Texts : RecordUserCorrection(c, t)

SpecCategories == InitCategories /\ [][NextCategories]_vars

\* the Budget Map
InitBudgets == InitStores(CategoryFiles, BudgetFiles, {Absent})

NextBudgets ==
    \/ Uncounted /\ Startup
    \/ Uncounted /\ Rerun
    \/ Uncounted /\ \E c \in BudgetKeys, a \in 0..MaxAmount : SaveBudget(c, a)
    \/ Uncounted /\ \E c \in BudgetKeys : ClearBudget(c)

SpecBudgets == InitBudgets /\ [][NextBudgets]_vars

---------------------------------------------------------------------------
(* Budget Status: lines 253-269, for the rows of category_totals.  Amounts  *)
(* are whole units of currency.                                            *)

\* the largest amount spent in a category
MaxSpent == 3

StatusCategories == {"Food", "Bills"}

\* f"{x:.0f}" of the quotient n / d: round to nearest, ties to even
RoundHalfEven(n, d) ==
    LET q == n \div d
        r == n % d
    IN  IF 2 * r < d THEN q
        ELSE IF 2 * r > d THEN q + 1
        ELSE IF q % 2 = 0 THEN q ELSE q + 1

\* line 256: float(budgets.get(cat, 0) or 0.0)
BudgetOf(b, cat) == IF cat \in DOMAIN b THEN b[cat] ELSE 0

\* a report that takes the over-budget branch already at spent == budget
BudgetStatusOverAtBoundary(cat, spent, b) ==
    LET budget == BudgetOf(b, cat)
    IN  IF budget > 0
        THEN IF spent >= budget
             THEN [branch |-> "over", over_by |-> spent - budget,
                   progress |-> <<budget, budget>>]
             ELSE [branch |-> "under", remaining |-> budget - spent,
                   used |-> RoundHalfEven(spent * 100, budget),
                   progress |-> <<spent, budget>>]
        ELSE [branch |-> "none"]

\* lines 254-269 for one row: what is reported for the category.  progress is
\* min(ratio, 1.0) as a fraction <<numerator, denominator>>
BudgetStatus(cat, spent, b) ==
    LET budget == BudgetOf(b, cat)
    IN  IF budget > 0
        THEN IF spent > budget
             THEN [branch |-> "over", over_by |-> spent - budget,
                   progress |-> <<budget, budget>>]
             ELSE [branch |-> "under", remaining |-> budget - spent,
                   used |-> RoundHalfEven(spent * 100, budget),
                   progress |-> <<spent, budget>>]
        ELSE [branch |-> "none"]

idleStores ==
    /\ pc = "start"
    /\ category_file = Absent
    /\ budget_file = Absent
    /\ recurring_file = Absent
    /\ start_files = [categories |-> Absent, budgets |-> Absent, recurring |-> Absent]
    /\ categories = <<>>
    /\ recurring = <<>>
    /\ upload = <<>>
    /\ df = <<>>
    /\ debits_df = <<>>
    /\ calls = <<>>
    /\ last_action = NoAction
    /\ budget_ops = NoBudgetOps
    /\ nops = 0

unchangedStores ==
    UNCHANGED <<pc, category_file, budget_file, recurring_file, start_files,
                categories, budgets, recurring, upload, df, debits_df, calls,
                budget_ops, nops>>

InitStatus ==
    /\ idleStores
    /\ \E S \in SUBSET StatusCategories : budgets \in [S -> 0..MaxAmount]
    /\ \E S \in SUBSET StatusCategories : category_totals \in [S -> 0..MaxSpent]
    /\ status = <<>>
    /\ base_df = <<>>
    /\ candidates = <<>>

\* lines 253-269: the loop over category_totals
RenderBudgetStatus ==
    /\ last_action = NoAction
    /\ status' = [c \in DOMAIN category_totals |->
                     BudgetStatus(c, category_totals[c], budgets)]
    /\ last_action' = [name |-> "RenderBudgetStatus"]
    /\ UNCHANGED <<category_totals, candVars>>
    /\ unchangedStores

NextStatus == RenderBudgetStatus

SpecStatus == InitStatus /\ [][NextStatus]_vars

---------------------------------------------------------------------------
(* Recurring candidates: lines 290-292 and 375-391.  A merchant's Details   *)
(* string is modelled by a number (only equality and the sort order of the *)
(* group keys matter), a Date by <<year, month, day>>.                     *)

\* line 391: .head(50)
HeadCap == 50

\* line 390: the slider's range
MinMonthsLow == 2
MinMonthsHigh == 12

\* the number of transactions of a small input
MaxTx == 4

\* the number of merchants of a large input
MaxMerchants == 52

\* a month taken without its year
MonthWithoutYear(date) == <<date[2]>>

\* line 376: Date.dt.to_period("M"), the calendar month "YYYY-MM"
Month(date) == <<date[1], date[2]>>

\* line 292: base_df[base_df["Debit/Credit"] == "Debit"]
DebitsOnly(rows) == SelectSeq(rows, LAMBDA t : t.DebitCredit = "Debit")

RECURSIVE SumAmounts(_, _)
SumAmounts(rows, S) ==
    IF S = {} THEN 0
    ELSE LET i == CHOOSE i \in S : TRUE
         IN  rows[i].Amount + SumAmounts(rows, S \ {i})

\* lines 380-385: the aggregates of one group
GroupRow(rows, d) ==
    LET S == {i \in 1..Len(rows) : rows[i].Details = d}
    IN  [Details |-> d,
         Months |-> Cardinality({Month(rows[i].Date) : i \in S}),
         Occurrences |-> Cardinality(S),
         Total |-> SumAmounts(rows, S)]

\* lines 379-386: groupby("Details") gives one row per merchant, in the
\* ascending order of the group keys
GroupBy(rows, keys) ==
    [p \in 1..Cardinality(keys) |->
        GroupRow(rows, CHOOSE d \in keys : Cardinality({e \in keys : e < d}) = p - 1)]

\* line 387: a comes before b when sorting by Months, then Total, descending
Before(a, b) ==
    \/ a.Months > b.Months
    \/ a.Months = b.Months /\ a.Total > b.Total

\* line 387: sort_values(["Months", "Total"], ascending=[False, False]); rows
\* that tie keep their order.  Row i goes to the place after the rows that
\* come before it and the earlier rows that tie with it
SortValues(rows) ==
    LET Place(i) ==
            1 + Cardinality({j \in 1..Len(rows) :
                                \/ Before(rows[j], rows[i])
                                \/ ~Before(rows[i], rows[j]) /\ j < i})
    IN  [p \in 1..Len(rows) |-> rows[CHOOSE i \in 1..Len(rows) : Place(i) = p]]

\* line 391: .head(50)
HeadRows(rows) == SubSeq(rows, 1, IF Len(rows) < HeadCap THEN Len(rows) ELSE HeadCap)

\* lines 290-292, 375-391: the candidates table
Candidates(rows, min_months) ==
    LET base == DebitsOnly(rows)
        grouped == GroupBy(base, {base[i].Details : i \in 1..Len(base)})
        sorted == SortValues(grouped)
    IN  HeadRows(SelectSeq(sorted, LAMBDA r : r.Months >= min_months))

\* the transactions a small input is made of
TxUniverse ==
    [Details : {1, 2}, Date : {<<2024, 1, 5>>, <<2024, 2, 5>>, <<2025, 1, 5>>},
     Amount : {1, 2}, DebitCredit : {"Debit"}]
    \cup [Details : {1}, Date : {<<2024, 1, 9>>, <<2024, 2, 9>>, <<2025, 1, 9>>},
          Amount : {1}, DebitCredit : {"Credit"}]

RECURSIVE SeqOf(_)
SeqOf(S) ==
    IF S = {} THEN <<>>
    ELSE LET t == CHOOSE t \in S : TRUE IN <<t>> \o SeqOf(S \ {t})

RECURSIVE SubsetsUpTo(_, _)
SubsetsUpTo(S, n) ==
    IF n = 0 THEN {{}}
    ELSE LET P == SubsetsUpTo(S, n - 1)
         IN  P \cup {T \cup {t} : T \in P, t \in S}

\* a large input of three rows per merchant: merchant k is billed in January
\* 2024, then in February 2024 (in January 2025 if k is a multiple of 5), and
\* in March 2024 if k is odd; if k is even its third row is a refund
LargeRows(n) ==
    [i \in 1..(3 * n) |->
        LET k == ((i - 1) \div 3) + 1
            slot == (i - 1) % 3
        IN  [Details |-> 100 + k,
             Date |-> IF slot = 0 THEN <<2024, 1, 1>>
                      ELSE IF slot = 2 THEN <<2024, 3, 1>>
                      ELSE IF k % 5 = 0 THEN <<2025, 1, 1>> ELSE <<2024, 2, 1>>,
             Amount |-> (k % 4) + 1,
             DebitCredit |-> IF slot = 2 /\ k % 2 = 0 THEN "Credit" ELSE "Debit"]]

InitCandidates ==
    /\ idleStores
    /\ budgets = EmptyMap
    /\ category_totals = <<>>
    /\ status = <<>>
    /\ \/ \E S \in SubsetsUpTo(TxUniverse, MaxTx) : base_df = SeqOf(S)
       \/ \E n \in (MaxMerchants - 2)..MaxMerchants : base_df = LargeRows(n)
    /\ candidates = <<>>

\* lines 375-391 with the slider at min_months
FindCandidates(min_months) ==
    /\ last_action = NoAction
    /\ candidates' = Candidates(base_df, min_months)
    /\ last_action' = [name |-> "FindCandidates", min_months |-> min_months]
    /\ UNCHANGED <<base_df, statusVars>>
    /\ unchangedStores

NextCandidates == \E n \in MinMonthsLow..MinMonthsHigh : FindCandidates(n)

SpecCandidates == InitCandidates /\ [][NextCandidates]_vars

---------------------------------------------------------------------------
(* Claims about the Category Store, checked under SpecCategories *)

\* the positions of the categories other than "Uncategorized" that hold a
\* keyword which, lower-cased and trimmed, occurs in the lower-cased, trimmed
\* details
Matching(details, cats) ==
    {j \in 1..Len(cats) :
        /\ cats[j].name # "Uncategorized"
        /\ \E k \in 1..Len(cats[j].keywords) :
               Contains(Strip(Lower(details)), Strip(Lower(cats[j].keywords[k])))}

Last(S) == CHOOSE j \in S : \A k \in S : k <= j

\* the runs that end with the store they classified with
FreshRun == pc = "running" /\ last_action.name \in {"Startup", "Rerun", "AddCategory"}

\* C1: last-match-wins.  Every classified transaction carries the category
\* that is last in the store's insertion order among the matching categories
\* other than "Uncategorized", and "Uncategorized" if no category matches.
C1_LastMatchWins ==
    FreshRun =>
        \A i \in 1..Len(upload) :
            LET M == Matching(Details(upload[i]), categories)
            IN  df[i] = IF M = {} THEN "Uncategorized" ELSE categories[Last(M)].name

\* a transaction matched by two categories has been given the second one
C1_Witness ==
    /\ FreshRun
    /\ \E i \in 1..Len(upload) :
           LET M == Matching(Details(upload[i]), categories)
           IN  /\ Cardinality(M) >= 2
               /\ df[i] = categories[Last(M)].name

SameText(a, b) == Lower(Strip(a)) = Lower(Strip(b)) /\ Strip(a) # <<>>

NoDuplicateKeywords ==
    \A c \in 1..Len(categories) :
        \A j, k \in 1..Len(categories[c].keywords) :
            Lower(Strip(categories[c].keywords[j])) = Lower(Strip(categories[c].keywords[k]))
                => j = k

C2_EachCall ==
    \A i \in 1..Len(calls) :
        Strip(calls[i].keyword) # <<>> =>
            /\ calls[i].ret = ~calls[i].present
            /\ Cardinality(SameKeywords(categories, calls[i].category,
                                        calls[i].keyword)) = 1

C2_SecondCallInRun ==
    \A i, j \in 1..Len(calls) :
        /\ i < j
        /\ calls[i].category = calls[j].category
        /\ SameText(calls[i].keyword, calls[j].keyword)
        => ~calls[j].ret /\ ~calls[j].changed

C2_SecondCallNextRun ==
    /\ last_action'.name \in {"ApplyChanges", "RecordUserCorrection"}
    /\ calls # <<>>
    /\ calls' # <<>>
    /\ calls[Len(calls)].category = calls'[1].category
    /\ SameText(calls[Len(calls)].keyword, calls'[1].keyword)
    => /\ ~calls'[1].ret
       /\ ~calls'[1].changed
       /\ Len(calls') = 1 => categories' = categories /\ category_file' = category_file

\* C2: learning idempotence.  A call with a text that is not empty after
\* trimming returns "applied" exactly when no keyword of the category equals
\* the text up to case and surrounding whitespace, and leaves exactly one such
\* keyword; a second call for the same category with the same text up to case
\* and surrounding whitespace, in the same run or in the next, returns "not
\* applied" and changes neither the store nor its file; no category ever holds
\* two keywords that are equal case-insensitively.
C2_LearningIdempotent ==
    /\ [](NoDuplicateKeywords /\ C2_EachCall /\ C2_SecondCallInRun)
    /\ [][C2_SecondCallNextRun]_vars

\* one handler has recorded the same details twice for one category, in two
\* spellings: the first call was applied, the second was not
C2_Witness ==
    /\ Len(calls) = 2
    /\ calls[1].category = calls[2].category
    /\ calls[1].keyword # calls[2].keyword
    /\ SameText(calls[1].keyword, calls[2].keyword)
    /\ calls[1].ret
    /\ ~calls[2].ret
    /\ Cardinality(SameKeywords(categories, calls[1].category, calls[1].keyword)) = 1

\* C3: "Uncategorized" is a key of the Category Store and every transaction's
\* category is a key of the Category Store, in every state a run leaves.
C3_CategoriesAreKeys ==
    pc = "running" =>
        /\ "Uncategorized" \in Keys(categories)
        /\ \A i \in 1..Len(debits_df) : debits_df[i] \in Keys(categories)

\* C9 as claimed: after every call the category is a key of the store, also
\* when the text is empty after trimming.
C9_CategoryAlwaysCreated ==
    \A i \in 1..Len(calls) : calls[i].category \in Keys(categories)

\* C9 amended: after a call with a text that is not empty after trimming the
\* category is a key of the store; a call with a text that is empty after
\* trimming returns "not applied" and changes nothing, so that a category
\* that was absent stays absent.
C9_CategoryCreatedUnlessEmpty ==
    \A i \in 1..Len(calls) :
        IF Strip(calls[i].keyword) # <<>>
        THEN calls[i].category \in Keys(categories)
        ELSE /\ ~calls[i].ret
             /\ ~calls[i].changed
             /\ ~calls[i].known => calls[i].category \notin Keys(categories)

\* the corrected case has happened: a call with a text of spaces only, for a
\* category that was absent, has returned and the category is still absent
C9_Witness ==
    /\ Len(calls) = 1
    /\ ~calls[1].known
    /\ Strip(calls[1].keyword) = <<>>
    /\ calls[1].keyword # <<>>
    /\ calls[1].category \notin Keys(categories)

\* C10: once a correction (C, d) has been recorded, with C other than
\* "Uncategorized" and d not empty after trimming, whether applied or not, the
\* next classification gives every transaction whose details are d the
\* category C or a category inserted after C, never "Uncategorized" and never
\* a category inserted before C.
C10_LearningDecidesClassification ==
    pc = "running" /\ last_action.name = "Rerun" =>
        \A c \in 1..Len(calls), i \in 1..Len(upload) :
            /\ calls[c].category # "Uncategorized"
            /\ Strip(calls[c].keyword) # <<>>
            /\ Details(upload[i]) = Strip(calls[c].keyword)
            => /\ df[i] # "Uncategorized"
               /\ df[i] \in Keys(categories)
               /\ IndexOf(categories, df[i]) >= IndexOf(categories, calls[c].category)

\* a correction to C was recorded and the transaction is still classified to
\* its previous category, which was inserted after C and kept the keyword
C10_Witness ==
    /\ pc = "running"
    /\ last_action.name = "Rerun"
    /\ \E c \in 1..Len(calls), i \in 1..Len(upload) :
           /\ calls[c].category # "Uncategorized"
           /\ Details(upload[i]) = Strip(calls[c].keyword)
           /\ calls[c].ret
           /\ df[i] # calls[c].category
           /\ IndexOf(categories, df[i]) > IndexOf(categories, calls[c].category)

---------------------------------------------------------------------------
(* Claims about loading and saving, checked under Spec *)

\* C4: a store file that exists but cannot be read does not fail the first
\* run; the store falls back to its default: {"Uncategorized": []} for the
\* Category Store, {} for the Budget Map, [] for the Recurring Keyword List.
C4_ReadErrorsRecovered ==
    last_action.name = "Startup" =>
        /\ pc = "running"
        /\ start_files.categories.kind = "corrupt" => categories = DefaultCategories
        /\ start_files.budgets.kind = "corrupt" => budgets = EmptyMap
        /\ start_files.recurring.kind = "corrupt" => recurring = <<>>

\* C5: write-through persistence.  In every state a run leaves, loading the
\* three stores again from their files gives the stores that are in memory.
C5_WriteThrough ==
    pc = "running" =>
        /\ LoadCategories(categories, category_file, FALSE) = categories
        /\ LoadBudgets(budgets, budget_file, FALSE) = budgets
        /\ LoadRecurring(recurring, recurring_file, FALSE) = recurring

---------------------------------------------------------------------------
(* Claims about the Budget Map, checked under SpecBudgets *)

Entry(b, c) == IF c \in DOMAIN b THEN <<TRUE, b[c]>> ELSE <<FALSE, 0>>

C7_LastOperationDecides ==
    \A c \in CategoryNames :
        /\ budget_ops[c].op = "set" =>
               /\ c \in DOMAIN budgets
               /\ budgets[c] = budget_ops[c].amount
               /\ budgets[c] >= 0
        /\ budget_ops[c].op = "clear" => c \notin DOMAIN budgets

C7_OtherEntriesKept ==
    last_action'.name \in {"SaveBudget", "ClearBudget"} =>
        /\ \A c \in CategoryNames :
               c # last_action'.category => Entry(budgets', c) = Entry(budgets, c)
        /\ /\ last_action'.name = "ClearBudget"
           /\ last_action'.category \notin DOMAIN budgets
           => /\ \A c \in CategoryNames : Entry(budgets', c) = Entry(budgets, c)
              /\ budget_file' = budget_file

\* C7: a category has a budget entry exactly when the last budget operation
\* on it was a save, and the entry is the amount saved last, never negative (a
\* saved 0 is an entry, a cleared budget is none); clearing a category that
\* has no entry changes nothing; an operation on one category leaves the
\* entries of the other categories as they were.
C7_BudgetMap ==
    /\ []C7_LastOperationDecides
    /\ [][C7_OtherEntriesKept]_vars

\* one category's budget was saved as 0 and is an entry, another's was cleared
\* and is none, a third still has the entry the file gave it
C7_Witness ==
    /\ pc = "running"
    /\ \E c, d, e \in CategoryNames :
           /\ budget_ops[c].op = "set"
           /\ budget_ops[c].amount = 0
           /\ Entry(budgets, c) = <<TRUE, 0>>
           /\ budget_ops[d].op = "clear"
           /\ Entry(budgets, d) = <<FALSE, 0>>
           /\ budget_ops[e].op = "none"
           /\ e \in DOMAIN budgets

---------------------------------------------------------------------------
(* Claims about the Budget Status report, checked under SpecStatus *)

\* C6: a category whose budget is set and above 0 is reported over budget,
\* with overage spent - budget, exactly when spent > budget, and otherwise
\* under budget with remaining budget - spent; at spent = budget it is under
\* budget with 0 remaining and 100 percent used; the progress shown never
\* exceeds 100%; a category whose budget is unset or not above 0 is reported
\* in neither branch.
C6_BudgetStatus ==
    last_action.name = "RenderBudgetStatus" =>
        /\ DOMAIN status = DOMAIN category_totals
        /\ \A c \in DOMAIN status :
               LET spent == category_totals[c]
                   row == status[c]
               IN  IF c \in DOMAIN budgets /\ budgets[c] > 0
                   THEN /\ row.branch \in {"over", "under"}
                        /\ row.branch = "over" <=> spent > budgets[c]
                        /\ row.branch = "over" => row.over_by = spent - budgets[c]
                        /\ row.branch = "under" => row.remaining = budgets[c] - spent
                        /\ spent = budgets[c] =>
                               /\ row.branch = "under"
                               /\ row.remaining = 0
                               /\ row.used = 100
                        /\ row.progress[1] <= row.progress[2]
                        /\ row.progress[2] > 0
                   ELSE row.branch = "none"

\* one report holds a category exactly at its budget, one over it and one
\* whose budget was saved as 0
C6_Witness ==
    /\ last_action.name = "RenderBudgetStatus"
    /\ \E c, d \in DOMAIN status :
           /\ c \in DOMAIN budgets
           /\ budgets[c] > 0
           /\ category_totals[c] = budgets[c]
           /\ status[c].branch = "under"
           /\ status[c].used = 100
           /\ d \in DOMAIN budgets
           /\ \/ budgets[d] = 0 /\ status[d].branch = "none"
              \/ category_totals[d] > budgets[d] /\ status[d].branch = "over"

---------------------------------------------------------------------------
(* Claims about the recurring candidates, checked under SpecCandidates *)

DebitRowsOf(d) ==
    {i \in 1..Len(base_df) :
        base_df[i].Details = d /\ base_df[i].DebitCredit = "Debit"}

\* the distinct calendar months (year and month) with a debit of merchant d
DebitMonths(d) ==
    Cardinality({<<base_df[i].Date[1], base_df[i].Date[2]>> : i \in DebitRowsOf(d)})

DebitTotal(d) == SumAmounts(base_df, DebitRowsOf(d))

Qualifying(min_months) ==
    {d \in {base_df[i].Details : i \in 1..Len(base_df)} :
        DebitRowsOf(d) # {} /\ DebitMonths(d) >= min_months}

\* C8: the candidates are merchants of the debit transactions, one row each,
\* whose number of distinct calendar months is at least min_months; the rows
\* are ordered by distinct months descending, then total descending; there
\* are min(50, number of qualifying merchants) rows, and no qualifying
\* merchant that was left out comes before a row in that order.
C8_Candidates ==
    last_action.name = "FindCandidates" =>
        LET Q == Qualifying(last_action.min_months)
            n == Len(candidates)
        IN  /\ \A p \in 1..n :
                   /\ candidates[p].Details \in Q
                   /\ candidates[p].Months = DebitMonths(candidates[p].Details)
                   /\ candidates[p].Total = DebitTotal(candidates[p].Details)
            /\ \A p, q \in 1..n :
                   p < q => /\ candidates[p].Details # candidates[q].Details
                            /\ ~Before(candidates[q], candidates[p])
            /\ n = IF Cardinality(Q) < 50 THEN Cardinality(Q) ELSE 50
            /\ \A d \in Q :
                   (\A p \in 1..n : candidates[p].Details # d) =>
                       \A p \in 1..n :
                           \/ candidates[p].Months > DebitMonths(d)
                           \/ /\ candidates[p].Months = DebitMonths(d)
                              /\ candidates[p].Total >= DebitTotal(d)

\* more than 50 merchants qualified and the table was cut to the first 50
C8_Witness ==
    /\ last_action.name = "FindCandidates"
    /\ Cardinality(Qualifying(last_action.min_months)) > 50
    /\ Len(candidates) = 50
    /\ candidates[1].Months > candidates[50].Months

=============================================================================
